---- MODULE Spec2Model ----
(***************************************************************************)
(* BirdRide: the GET /api/birds handler of the backend server.             *)
(*                                                                         *)
(* The handler samples the route, asks eBird for the notable observations  *)
(* of every sample point (all at once, awaited jointly), folds them into   *)
(* the Map allBirds, then asks for the recent observations of one sample   *)
(* point after the other and folds each answer, sorts every aggregate's    *)
(* sightings and answers with the aggregates.                              *)
(*                                                                         *)
(* A response body is data that only the fold loops read, one element at a *)
(* time; the model draws each element when the loop reads it.              *)
(***************************************************************************)
EXTENDS Integers, Sequences, FiniteSets, TLC

VARIABLES
    pc,              \* position of the handler
    coords,          \* JSON.parse(req.query.coords)
    samplePoints,    \* sampleCoordinates(coords, 15)
    notableResults,  \* settled value of every notable promise, "pending" before
    allBirds,        \* Map speciesCode -> aggregate, in insertion order
    seenSightings,   \* Set of sighting keys
    notableSpecies,  \* Set of species codes of the notable responses
    ri,              \* notable loop: index of the result being folded
    rj,              \* number of elements read of the body being folded
    idx,             \* recent loop: index of the sample point
    status,          \* HTTP status of the answer, 0 before it is sent
    body,            \* JSON body of the answer
    received,        \* history: <<mode, observation>> read from a body
    kinds,           \* history: <<mode, outcome>> of every settled query
    curNew,          \* history: observations the current recent body added
    tainted,         \* history: observations added by a recent body that threw
    query,           \* req.query.days and req.query.radius, as sent
    params,          \* days and radius after parsing
    issued,          \* history: the eBird queries issued so far
    settled,         \* history: <<mode, sample point>> of the settled queries
    sent,            \* number of responses sent on res
    orderA,          \* merge alone: one arrival order of the observations
    orderB,          \* merge alone: another arrival order of the same ones
    merged,          \* merge alone: <<result of orderA, result of orderB>>
    path,            \* sampler alone: the coordinates passed
    maxPoints,       \* sampler alone: the maxPoints passed
    sampled,         \* sampler alone: what the call did
    routeSampled,    \* sampler alone: what sampleRoutePoints did
    runResp,         \* two runs: the body every query returns, by sample point
    runOrder,        \* two runs: order in which each run's notable queries settled
    runAnswer,       \* two runs: the collection each run answered with
    state,           \* client store: the application state object
    applied,         \* client store: applyFilters was the last to write it
    rawBody,         \* fold alone: the bodies of a notable and a recent response
    rawAt,           \* fold alone: elements of each body folded so far
    rawSt,           \* fold alone: allBirds, seenSightings and notableSpecies
    reqResp,         \* two requests: the bodies the queries of each return
    reqAt,           \* two requests: the await each handler stands at
    reqFrame,        \* two requests: the locals of each handler call
    reqAnswer,       \* two requests: the body each res.json sent
    inflight,        \* loads: number of fetches in flight, by time window asked
    loadedFor,       \* loads: time window of the fetch that wrote birds last, 0 for none
    subscribers,     \* notification: Map key -> Set of callbacks, in insertion order
    invoked,         \* notification: <<key, callback>> of every call the last setState made
    lastCall,        \* notification: the store, the subscribers and the updates of that setState
    nextRef          \* notification: arrays created so far

vars == <<pc, coords, samplePoints, notableResults, allBirds, seenSightings,
          notableSpecies, ri, rj, idx, status, body, received, kinds, curNew,
          tainted, query, params, issued, settled, sent, orderA, orderB, merged,
          path, maxPoints, sampled, routeSampled, runResp, runOrder, runAnswer, state,
          applied, rawBody, rawAt, rawSt,
          reqResp, reqAt, reqFrame, reqAnswer,
          inflight, loadedFor,
          subscribers, invoked, lastCall, nextRef>>

(* the variables of the handler, and those of the merge taken alone *)
handlerVars == <<pc, coords, samplePoints, notableResults, allBirds,
                 seenSightings, notableSpecies, ri, rj, idx, status, body,
                 received, kinds, curNew, tainted, query, params, issued,
                 settled, sent>>
orderVars == <<orderA, orderB, merged>>

(* the variables no step of the handler writes *)
samplerVars == <<path, maxPoints, sampled, routeSampled>>
runVars == <<runResp, runOrder, runAnswer>>
storeVars == <<state, applied>>
rawVars == <<rawBody, rawAt, rawSt>>
reqVars == <<reqResp, reqAt, reqFrame, reqAnswer>>
loadVars == <<inflight, loadedFor>>
notifyVars == <<subscribers, invoked, lastCall, nextRef>>
otherVars == <<orderVars, samplerVars, runVars, storeVars, rawVars, reqVars,
               loadVars, notifyVars>>

(***************************************************************************)
(* Bounds of the model.                                                    *)
(***************************************************************************)
MaxCoords == 2      \* longest route of the request
MaxObs == 2         \* most elements read of one response body

(* sampleCoordinates(coords, 15) *)
SampleCap == 15

(***************************************************************************)
(* Raw observations eBird may return.  obsDt is "YYYY-MM-DD HH:mm", kept   *)
(* as <<day, minute of the day>>; howMany 0 stands for a missing count.    *)
(***************************************************************************)
Observations == <<
    [speciesCode |-> "amerob", comName |-> "American Robin",
     sciName |-> "Turdus migratorius", subId |-> "S1", obsDt |-> <<1, 30>>,
     howMany |-> 0, locName |-> "Park", lat |-> 1, lng |-> 1,
     obsReviewed |-> FALSE],
    [speciesCode |-> "amerob", comName |-> "American Robin",
     sciName |-> "Turdus migratorius", subId |-> "S2", obsDt |-> <<2, 0>>,
     howMany |-> 3, locName |-> "Lake", lat |-> 2, lng |-> 1,
     obsReviewed |-> TRUE],
    [speciesCode |-> "amerob", comName |-> "American Robin",
     sciName |-> "Turdus migratorius", subId |-> "S3", obsDt |-> <<2, 0>>,
     howMany |-> 1, locName |-> "Pier", lat |-> 2, lng |-> 2,
     obsReviewed |-> FALSE],
    [speciesCode |-> "snoowl", comName |-> "Snowy Owl",
     sciName |-> "Bubo scandiacus", subId |-> "S1", obsDt |-> <<1, 45>>,
     howMany |-> 1, locName |-> "Park", lat |-> 1, lng |-> 1,
     obsReviewed |-> FALSE] >>

ObsIds == DOMAIN Observations

(***************************************************************************)
(* Pure helpers.                                                           *)
(***************************************************************************)

(* the loop without its break *)
RECURSIVE sampleLoopNoBreak(_, _, _, _, _)
sampleLoopNoBreak(cs, step, cap, i, acc) ==
    IF i >= Len(cs) \/ step <= 0 THEN acc
    ELSE sampleLoopNoBreak(cs, step, cap, i + step, Append(acc, cs[i + 1]))

(* for (let i = 0; i < coords.length; i += step) { push; break at maxPoints } *)
RECURSIVE sampleLoop(_, _, _, _, _)
sampleLoop(cs, step, cap, i, acc) ==
    IF i >= Len(cs) THEN acc
    ELSE LET pushed == Append(acc, cs[i + 1])
         IN  IF Len(pushed) >= cap THEN pushed
             ELSE sampleLoop(cs, step, cap, i + step, pushed)

(* a step rounded up *)
sampleStepCeil(len, cap) ==
    IF cap = 0 THEN len ELSE (len + cap - 1) \div cap

(* Math.floor(coords.length / maxPoints); the quotient by 0 is Infinity,
   which takes i past the end as coords.length does *)
sampleStep(len, cap) == IF cap = 0 THEN len ELSE len \div cap

(* sampleCoordinates(coords, maxPoints) *)
sampleCoordinates(cs, cap) ==
    IF Len(cs) <= cap THEN cs
    ELSE sampleLoop(cs, sampleStep(Len(cs), cap), cap, 0, <<>>)

(* for (let i = 0; i < coordinates.length; i += step) sampled.push(...) *)
RECURSIVE routeLoop(_, _, _, _)
routeLoop(cs, step, i, acc) ==
    IF i >= Len(cs) THEN acc
    ELSE routeLoop(cs, step, i + step, Append(acc, cs[i + 1]))

(* the last point is pushed unless it is the last one sampled; of an empty
   route both sides of the test are undefined *)
includeLast(cs, acc) ==
    IF cs = <<>> THEN acc
    ELSE IF acc = <<>> \/ acc[Len(acc)] # cs[Len(cs)]
         THEN Append(acc, cs[Len(cs)])
         ELSE acc

(* sampleRoutePoints(coordinates, maxPoints) of the route service *)
sampleRoutePoints(cs, cap) ==
    IF Len(cs) <= cap THEN cs
    ELSE includeLast(cs, routeLoop(cs, sampleStep(Len(cs), cap), 0, <<>>))

(* a key that leaves the species out *)
sightingKeySubIdOnly(bird) == bird.subId

(* `${bird.speciesCode}-${bird.subId}` *)
sightingKey(bird) == bird.speciesCode \o "-" \o bird.subId

(* a test that never finds the key *)
seenHasNever(seen, key) == FALSE

(* seenSightings.has(sightingKey) *)
seenHas(seen, key) == key \in seen

(* bird.howMany || 1 *)
howManyOrOne(bird) == IF bird.howMany = 0 THEN 1 ELSE bird.howMany

(* the sighting object built from an observation *)
sightingOf(bird) ==
    [obsDt |-> bird.obsDt, howMany |-> howManyOrOne(bird),
     locName |-> bird.locName, subId |-> bird.subId,
     lat |-> bird.lat, lng |-> bird.lng]

(* the aggregate allBirds.set stores for a species seen for the first time *)
newAggregate(bird, rarity) ==
    [speciesCode |-> bird.speciesCode, comName |-> bird.comName,
     sciName |-> bird.sciName, rarity |-> rarity,
     lat |-> bird.lat, lng |-> bird.lng, obsDt |-> bird.obsDt,
     howMany |-> howManyOrOne(bird), locName |-> bird.locName,
     subId |-> bird.subId, sightings |-> <<sightingOf(bird)>>]

(* allBirds.has(code) *)
mapHas(m, code) == \E i \in DOMAIN m : m[i].speciesCode = code

(* position of allBirds.get(code) *)
mapIndex(m, code) == CHOOSE i \in DOMAIN m : m[i].speciesCode = code

(* bird.obsDt > existing.obsDt, on strings of one fixed-width format *)
obsDtGreater(a, b) == a[1] > b[1] \/ (a[1] = b[1] /\ a[2] > b[2])

(* new Date(obsDt), in milliseconds *)
dateOf(t) == (t[1] * 1440 + t[2]) * 60000

(***************************************************************************)
(* The two folds, on st = [allBirds, seenSightings, notableSpecies].       *)
(***************************************************************************)

(* a notable loop that merges the observation and leaves the set alone *)
notableFoldNoSeed(st, bird) ==
    LET key == sightingKey(bird)
    IN  IF seenHas(st.seenSightings, key)
        THEN st
        ELSE IF ~mapHas(st.allBirds, bird.speciesCode)
        THEN [st EXCEPT
                !.allBirds = Append(@, newAggregate(bird, "rare")),
                !.seenSightings = @ \cup {key}]
        ELSE LET i == mapIndex(st.allBirds, bird.speciesCode)
             IN  [st EXCEPT
                    !.allBirds[i].sightings = Append(@, sightingOf(bird)),
                    !.allBirds[i].rarity = "rare",
                    !.seenSightings = @ \cup {key}]

(* a notable loop that only collects the species codes *)
notableFoldSeedOnly(st, bird) ==
    [st EXCEPT !.notableSpecies = @ \cup {bird.speciesCode}]

(* body of the notable loop for one observation *)
notableFold(st, bird) ==
    LET ns == st.notableSpecies \cup {bird.speciesCode}
        key == sightingKey(bird)
    IN  IF seenHas(st.seenSightings, key)
        THEN [st EXCEPT !.notableSpecies = ns]
        ELSE IF ~mapHas(st.allBirds, bird.speciesCode)
        THEN [allBirds |-> Append(st.allBirds, newAggregate(bird, "rare")),
              seenSightings |-> st.seenSightings \cup {key},
              notableSpecies |-> ns]
        ELSE LET i == mapIndex(st.allBirds, bird.speciesCode)
             IN  [allBirds |->
                    [st.allBirds EXCEPT
                       ![i].sightings = Append(@, sightingOf(bird)),
                       ![i].rarity = "rare"],
                  seenSightings |-> st.seenSightings \cup {key},
                  notableSpecies |-> ns]

(* the primary fields an aggregate takes from a more recent observation *)
updatePrimary(agg, bird) ==
    [agg EXCEPT !.obsDt = bird.obsDt, !.lat = bird.lat, !.lng = bird.lng,
                !.howMany = howManyOrOne(bird), !.locName = bird.locName,
                !.subId = bird.subId]

(* rarity of an aggregate the recent loop creates *)
recentRarity(ns, bird) ==
    IF bird.speciesCode \in ns \/ bird.obsReviewed THEN "rare" ELSE "common"

(* an update that classifies the aggregate again, by this observation *)
recentUpdateReclassify(agg, bird) ==
    LET pushed == [agg EXCEPT !.sightings = Append(@, sightingOf(bird)),
                              !.rarity = IF bird.obsReviewed
                                         THEN "rare" ELSE "common"]
    IN  IF obsDtGreater(bird.obsDt, agg.obsDt)
        THEN updatePrimary(pushed, bird)
        ELSE pushed

(* the recent loop adds an observation to the aggregate of its species *)
recentUpdate(agg, bird) ==
    LET pushed == [agg EXCEPT !.sightings = Append(@, sightingOf(bird))]
    IN  IF obsDtGreater(bird.obsDt, agg.obsDt)
        THEN updatePrimary(pushed, bird)
        ELSE pushed

(* body of the recent loop for one observation *)
recentFold(st, bird) ==
    LET key == sightingKey(bird)
    IN  IF seenHas(st.seenSightings, key)
        THEN st
        ELSE IF ~mapHas(st.allBirds, bird.speciesCode)
        THEN [st EXCEPT
                !.allBirds = Append(@, newAggregate(bird,
                                 recentRarity(st.notableSpecies, bird))),
                !.seenSightings = @ \cup {key}]
        ELSE LET i == mapIndex(st.allBirds, bird.speciesCode)
             IN  [st EXCEPT
                    !.allBirds[i] = recentUpdate(@, bird),
                    !.seenSightings = @ \cup {key}]

(* the comparator turned round: oldest first *)
sortInsertAscending(sorted, x) ==
    LET k == Cardinality({i \in DOMAIN sorted :
                            dateOf(sorted[i].obsDt) <= dateOf(x.obsDt)})
    IN  SubSeq(sorted, 1, k) \o <<x>> \o SubSeq(sorted, k + 1, Len(sorted))

(* sightings.sort((a, b) => new Date(b.obsDt) - new Date(a.obsDt)): stable *)
sortInsert(sorted, x) ==
    LET k == Cardinality({i \in DOMAIN sorted :
                            dateOf(sorted[i].obsDt) >= dateOf(x.obsDt)})
    IN  SubSeq(sorted, 1, k) \o <<x>> \o SubSeq(sorted, k + 1, Len(sorted))

RECURSIVE sortPrefix(_, _)
sortPrefix(s, n) ==
    IF n = 0 THEN <<>> ELSE sortInsert(sortPrefix(s, n - 1), s[n])

sortSightings(s) == sortPrefix(s, Len(s))

(* the final loop over allBirds.values() *)
sortAll(m) == [i \in DOMAIN m |-> [m[i] EXCEPT !.sightings = sortSightings(@)]]

(***************************************************************************)
(* fetchNotableBirds: what the promise is fulfilled with, by the outcome   *)
(* of the query.  "error": fetch or response.json() threw; "status":       *)
(* !response.ok; "notlist": the JSON body is no array; "list": an array.   *)
(***************************************************************************)
Outcomes == {"error", "status", "notlist", "list"}

(* without the test of response.ok the error body is parsed and returned *)
fetchNotableBirdsNoOkTest(outcome) ==
    IF outcome = "error" THEN "empty"
    ELSE IF outcome = "status" THEN "notlist" ELSE outcome

fetchNotableBirds(outcome) ==
    IF outcome \in {"error", "status"} THEN "empty" ELSE outcome

(***************************************************************************)
(* The query parameters.  A parameter is the number its text parses to,    *)
(* or is no number at all (absent, or text that parseInt / parseFloat turn *)
(* into NaN).  radius and dist are in tenths of a kilometre.               *)
(***************************************************************************)
DefaultDays == 14
DefaultRadius == 25

NotANumber == [given |-> FALSE, value |-> 0]
Number(v) == [given |-> TRUE, value |-> v]

(* parseInt(req.query.days) || 14 *)
parseDays(q) == IF ~q.given \/ q.value = 0 THEN DefaultDays ELSE q.value

(* parseFloat(req.query.radius) || 2.5 *)
parseRadius(q) == IF ~q.given \/ q.value = 0 THEN DefaultRadius ELSE q.value

(* the URLSearchParams of the query of one sample point *)
queryOf(mode, point, p) ==
    [mode |-> mode, point |-> point, dist |-> p.radius, back |-> p.days]

(***************************************************************************)
(* The handler.                                                            *)
(***************************************************************************)
st0 == [allBirds |-> <<>>, seenSightings |-> {}, notableSpecies |-> {}]

(* a test that lets every route through *)
emptyRouteNever(cs) == FALSE

(* !coords.length *)
emptyRoute(cs) == Len(cs) = 0

Routes == UNION {[1..n -> {"p"}] : n \in 0..MaxCoords}

(* the parts of the state a specification leaves alone *)
OrderIdle ==
    /\ orderA = [notable |-> <<>>, recent |-> <<>>]
    /\ orderB = [notable |-> <<>>, recent |-> <<>>]
    /\ merged = <<>>

SamplerIdle ==
    /\ path = <<>>
    /\ maxPoints = 0
    /\ sampled = [done |-> FALSE, threw |-> FALSE, points |-> <<>>]
    /\ routeSampled = [done |-> FALSE, points |-> <<>>]

RunsIdle ==
    /\ runResp = [notable |-> <<>>, recent |-> <<>>]
    /\ runOrder = <<>>
    /\ runAnswer = <<>>

(* the store as the module creates it; null is written <<>> *)
initialState ==
    [birds |-> <<>>, filteredBirds |-> <<>>, routeGeoJSON |-> <<>>,
     timeWindow |-> 14, distanceFilter |-> 1, rarityFilter |-> "all"]

StoreIdle ==
    /\ state = initialState
    /\ applied = FALSE

RawIdle ==
    /\ rawBody = [notable |-> <<>>, recent |-> <<>>]
    /\ rawAt = [notable |-> 0, recent |-> 0]
    /\ rawSt = st0

ReqIdle ==
    /\ reqResp = <<>>
    /\ reqAt = <<>>
    /\ reqFrame = <<>>
    /\ reqAnswer = <<>>

LoadIdle ==
    /\ inflight = <<>>
    /\ loadedFor = 0

NotifyIdle ==
    /\ subscribers = <<>>
    /\ invoked = <<>>
    /\ lastCall = [made |-> FALSE]
    /\ nextRef = 0

HandlerIdle ==
    /\ pc = "off"
    /\ coords = <<>>
    /\ samplePoints = <<>>
    /\ notableResults = <<>>
    /\ allBirds = <<>>
    /\ seenSightings = {}
    /\ notableSpecies = {}
    /\ ri = 0
    /\ rj = 0
    /\ idx = 0
    /\ status = 0
    /\ sent = 0
    /\ body = <<>>
    /\ received = {}
    /\ kinds = {}
    /\ curNew = {}
    /\ tainted = {}
    /\ query = [days |-> NotANumber, radius |-> NotANumber]
    /\ params = [days |-> 0, radius |-> 0]
    /\ issued = {}
    /\ settled = {}

Init ==
    /\ pc = "start"
    /\ coords \in Routes
    /\ samplePoints = <<>>
    /\ notableResults = <<>>
    /\ allBirds = <<>>
    /\ seenSightings = {}
    /\ notableSpecies = {}
    /\ ri = 0
    /\ rj = 0
    /\ idx = 0
    /\ status = 0
    /\ sent = 0
    /\ body = <<>>
    /\ received = {}
    /\ kinds = {}
    /\ curNew = {}
    /\ tainted = {}
    /\ query = [days |-> NotANumber, radius |-> NotANumber]
    /\ params = [days |-> 0, radius |-> 0]
    /\ issued = {}
    /\ settled = {}
    /\ orderA = [notable |-> <<>>, recent |-> <<>>]
    /\ orderB = [notable |-> <<>>, recent |-> <<>>]
    /\ merged = <<>>
    /\ SamplerIdle
    /\ RunsIdle
    /\ StoreIdle
    /\ RawIdle
    /\ ReqIdle
    /\ LoadIdle
    /\ NotifyIdle

(* res.json(...) sends one response *)
resJson(n) == n + 1

(* a catch that logs the error and sends nothing *)
catchSwallows(n) == n

(* res.status(500).json(...) in the outer catch sends one response *)
catchResponds(n) == n + 1

(* lines 76-93: parse, reject an empty route, sample, issue the notable
   queries *)
Start ==
    /\ pc = "start"
    /\ params' = [days |-> parseDays(query.days),
                  radius |-> parseRadius(query.radius)]
    /\ IF emptyRoute(coords)
       THEN /\ pc' = "done"
            /\ status' = 400
            /\ sent' = resJson(sent)
            /\ UNCHANGED <<samplePoints, notableResults, issued>>
       ELSE /\ pc' = "notableWait"
            /\ samplePoints' = sampleCoordinates(coords, SampleCap)
            /\ notableResults' =
                 [i \in DOMAIN sampleCoordinates(coords, SampleCap) |-> "pending"]
            /\ issued' = {queryOf("notable", i, params') :
                             i \in DOMAIN sampleCoordinates(coords, SampleCap)}
            /\ UNCHANGED <<status, sent>>
    /\ UNCHANGED <<coords, allBirds, seenSightings, notableSpecies, ri, rj, idx,
                   body, received, kinds, curNew, tainted>>
    /\ UNCHANGED <<query, settled>>
    /\ UNCHANGED otherVars

(* one notable query settles: fetchNotableBirds returns *)
NotableSettle(i, outcome) ==
    /\ pc = "notableWait"
    /\ i \in DOMAIN notableResults
    /\ notableResults[i] = "pending"
    /\ notableResults' = [notableResults EXCEPT ![i] = fetchNotableBirds(outcome)]
    /\ kinds' = kinds \cup {<<"notable", outcome>>}
    /\ UNCHANGED <<pc, coords, samplePoints, allBirds, seenSightings,
                   notableSpecies, ri, rj, idx, status, body, received, curNew,
                   tainted>>
    /\ settled' = settled \cup {<<"notable", i>>}
    /\ UNCHANGED <<query, params, issued, sent>>
    /\ UNCHANGED otherVars

(* await Promise.allSettled(notablePromises) resumes *)
NotableAllSettled ==
    /\ pc = "notableWait"
    /\ \A i \in DOMAIN notableResults : notableResults[i] # "pending"
    /\ pc' = "notableFold"
    /\ ri' = 1
    /\ rj' = 0
    /\ UNCHANGED <<coords, samplePoints, notableResults, allBirds,
                   seenSightings, notableSpecies, idx, status, body, received,
                   kinds, curNew, tainted>>
    /\ UNCHANGED <<query, params, issued, settled, sent>>
    /\ UNCHANGED otherVars

(* the outer catch: res.status(500) *)
Fail500 ==
    /\ pc' = "done"
    /\ status' = 500
    /\ sent' = catchResponds(sent)
    /\ body' = <<>>

(* the notable loop reads the observation e of result ri *)
NotableFoldItem(e) ==
    /\ pc = "notableFold"
    /\ ri <= Len(notableResults)
    /\ notableResults[ri] = "list"
    /\ rj < MaxObs
    /\ e \in ObsIds
    /\ LET st == notableFold([allBirds |-> allBirds,
                              seenSightings |-> seenSightings,
                              notableSpecies |-> notableSpecies],
                             Observations[e])
       IN  /\ allBirds' = st.allBirds
           /\ seenSightings' = st.seenSightings
           /\ notableSpecies' = st.notableSpecies
    /\ rj' = rj + 1
    /\ received' = received \cup {<<"notable", e>>}
    /\ UNCHANGED <<pc, coords, samplePoints, notableResults, ri, idx, status,
                   body, kinds, curNew, tainted>>
    /\ UNCHANGED <<query, params, issued, settled, sent>>
    /\ UNCHANGED otherVars

(* the notable loop reads a null element, or result.value is no array:
   a TypeError that only the outer catch handles *)
NotableFoldThrow ==
    /\ pc = "notableFold"
    /\ ri <= Len(notableResults)
    /\ \/ /\ notableResults[ri] = "list"
          /\ rj < MaxObs
          /\ kinds' = kinds \cup {<<"notable", "nullitem">>}
       \/ /\ notableResults[ri] = "notlist"
          /\ UNCHANGED kinds
    /\ Fail500
    /\ UNCHANGED <<coords, samplePoints, notableResults, allBirds,
                   seenSightings, notableSpecies, ri, rj, idx, received, curNew,
                   tainted>>
    /\ UNCHANGED <<query, params, issued, settled>>
    /\ UNCHANGED otherVars

(* the body of result ri is exhausted *)
NotableFoldEnd ==
    /\ pc = "notableFold"
    /\ ri <= Len(notableResults)
    /\ notableResults[ri] \in {"empty", "list"}
    /\ ri' = ri + 1
    /\ rj' = 0
    /\ UNCHANGED <<pc, coords, samplePoints, notableResults, allBirds,
                   seenSightings, notableSpecies, idx, status, body, received,
                   kinds, curNew, tainted>>
    /\ UNCHANGED <<query, params, issued, settled, sent>>
    /\ UNCHANGED otherVars

(* the notable loop is over: the recent loop starts *)
NotableDone ==
    /\ pc = "notableFold"
    /\ ri > Len(notableResults)
    /\ pc' = "recentIssue"
    /\ idx' = 1
    /\ notableResults' = <<>>
    /\ UNCHANGED <<coords, samplePoints, allBirds, seenSightings,
                   notableSpecies, ri, rj, status, body, received, kinds,
                   curNew, tainted>>
    /\ UNCHANGED <<query, params, issued, settled, sent>>
    /\ UNCHANGED otherVars

(* await fetch(url) for sample point idx *)
RecentIssue ==
    /\ pc = "recentIssue"
    /\ idx <= Len(samplePoints)
    /\ pc' = "recentWait"
    /\ UNCHANGED <<coords, samplePoints, notableResults, allBirds,
                   seenSightings, notableSpecies, ri, rj, idx, status, body,
                   received, kinds, curNew, tainted>>
    /\ issued' = issued \cup {queryOf("recent", idx, params)}
    /\ UNCHANGED <<query, params, settled, sent>>
    /\ UNCHANGED otherVars

(* the recent query of sample point idx settles *)
RecentSettle(outcome) ==
    /\ pc = "recentWait"
    /\ kinds' = kinds \cup {<<"recent", outcome>>}
    /\ IF outcome = "list"
       THEN /\ pc' = "recentFold"
            /\ rj' = 0
            /\ UNCHANGED idx
       ELSE \* catch (err), continue, or for..of over no array: next point
            /\ pc' = "recentIssue"
            /\ idx' = idx + 1
            /\ UNCHANGED rj
    /\ curNew' = {}
    /\ UNCHANGED <<coords, samplePoints, notableResults, allBirds,
                   seenSightings, notableSpecies, ri, status, body, received,
                   tainted>>
    /\ settled' = settled \cup {<<"recent", idx>>}
    /\ UNCHANGED <<query, params, issued, sent>>
    /\ UNCHANGED otherVars

(* the recent loop reads the observation e of the body *)
RecentFoldItem(e) ==
    /\ pc = "recentFold"
    /\ rj < MaxObs
    /\ e \in ObsIds
    /\ LET st == recentFold([allBirds |-> allBirds,
                             seenSightings |-> seenSightings,
                             notableSpecies |-> notableSpecies],
                            Observations[e])
       IN  /\ allBirds' = st.allBirds
           /\ seenSightings' = st.seenSightings
           /\ notableSpecies' = st.notableSpecies
           /\ curNew' = IF st.seenSightings # seenSightings
                        THEN curNew \cup {e} ELSE curNew
    /\ rj' = rj + 1
    /\ received' = received \cup {<<"recent", e>>}
    /\ UNCHANGED <<pc, coords, samplePoints, notableResults, ri, idx, status,
                   body, kinds, tainted>>
    /\ UNCHANGED <<query, params, issued, settled, sent>>
    /\ UNCHANGED otherVars

(* the recent loop reads a null element: the TypeError is caught by the
   catch of this sample point, what the body added so far stays *)
RecentFoldThrow ==
    /\ pc = "recentFold"
    /\ rj < MaxObs
    /\ kinds' = kinds \cup {<<"recent", "nullitem">>}
    /\ tainted' = tainted \cup curNew
    /\ pc' = "recentIssue"
    /\ idx' = idx + 1
    /\ UNCHANGED <<coords, samplePoints, notableResults, allBirds,
                   seenSightings, notableSpecies, ri, rj, status, body,
                   received, curNew>>
    /\ UNCHANGED <<query, params, issued, settled, sent>>
    /\ UNCHANGED otherVars

(* the body is exhausted *)
RecentFoldEnd ==
    /\ pc = "recentFold"
    /\ pc' = "recentIssue"
    /\ idx' = idx + 1
    /\ UNCHANGED <<coords, samplePoints, notableResults, allBirds,
                   seenSightings, notableSpecies, ri, rj, status, body,
                   received, kinds, curNew, tainted>>
    /\ UNCHANGED <<query, params, issued, settled, sent>>
    /\ UNCHANGED otherVars

(* lines 227-232: sort the sightings of every aggregate, answer *)
Respond ==
    /\ pc = "recentIssue"
    /\ idx > Len(samplePoints)
    /\ allBirds' = sortAll(allBirds)
    /\ body' = sortAll(allBirds)
    /\ status' = 200
    /\ sent' = resJson(sent)
    /\ pc' = "done"
    /\ UNCHANGED <<coords, samplePoints, notableResults, seenSightings,
                   notableSpecies, ri, rj, idx, received, kinds, curNew,
                   tainted>>
    /\ UNCHANGED <<query, params, issued, settled>>
    /\ UNCHANGED otherVars

Next ==
    \/ Start
    \/ \E i \in DOMAIN notableResults, o \in Outcomes : NotableSettle(i, o)
    \/ NotableAllSettled
    \/ \E e \in ObsIds : NotableFoldItem(e)
    \/ NotableFoldThrow
    \/ NotableFoldEnd
    \/ NotableDone
    \/ RecentIssue
    \/ \E o \in Outcomes : RecentSettle(o)
    \/ \E e \in ObsIds : RecentFoldItem(e)
    \/ RecentFoldThrow
    \/ RecentFoldEnd
    \/ Respond

Spec == Init /\ [][Next]_vars

(* every query settles and every continuation of the handler is run *)
SpecFair == Spec /\ WF_vars(Next)

(***************************************************************************)
(* The first step of the handler over the days and radius a request may    *)
(* carry.                                                                  *)
(***************************************************************************)
MaxParam == 3       \* largest absolute value of a parameter sent

QueryValues == {NotANumber} \cup {Number(v) : v \in (0 - MaxParam)..MaxParam}

InitParams ==
    /\ pc = "start"
    /\ coords \in Routes
    /\ samplePoints = <<>>
    /\ notableResults = <<>>
    /\ allBirds = <<>>
    /\ seenSightings = {}
    /\ notableSpecies = {}
    /\ ri = 0
    /\ rj = 0
    /\ idx = 0
    /\ status = 0
    /\ sent = 0
    /\ body = <<>>
    /\ received = {}
    /\ kinds = {}
    /\ curNew = {}
    /\ tainted = {}
    /\ query \in [days : QueryValues, radius : QueryValues]
    /\ params = [days |-> 0, radius |-> 0]
    /\ issued = {}
    /\ settled = {}
    /\ orderA = [notable |-> <<>>, recent |-> <<>>]
    /\ orderB = [notable |-> <<>>, recent |-> <<>>]
    /\ merged = <<>>
    /\ SamplerIdle
    /\ RunsIdle
    /\ StoreIdle
    /\ RawIdle
    /\ ReqIdle
    /\ LoadIdle
    /\ NotifyIdle

NextParams == Start

SpecParams == InitParams /\ [][NextParams]_vars

(***************************************************************************)
(* The merge taken alone, as a function of the arrival order: the notable  *)
(* loop over the notable observations in their order, the recent loop over *)
(* the recent ones in theirs, then the sort.  Two orders of the same       *)
(* observations are merged side by side.                                   *)
(***************************************************************************)
MaxArrivals == 2    \* most observations of one mode in an arrival order

RECURSIVE foldNotableSeq(_, _, _)
foldNotableSeq(st, obs, n) ==
    IF n = 0 THEN st
    ELSE notableFold(foldNotableSeq(st, obs, n - 1), Observations[obs[n]])

RECURSIVE foldRecentSeq(_, _, _)
foldRecentSeq(st, obs, n) ==
    IF n = 0 THEN st
    ELSE recentFold(foldRecentSeq(st, obs, n - 1), Observations[obs[n]])

(* the collection the handler answers with when the observations arrive in
   the order o *)
mergeInOrder(o) ==
    sortAll(foldRecentSeq(foldNotableSeq(st0, o.notable, Len(o.notable)),
                          o.recent, Len(o.recent)).allBirds)

Arrivals == UNION {[1..n -> ObsIds] : n \in 0..MaxArrivals}

(* t is s in another order *)
IsPermutation(s, t) ==
    /\ Len(s) = Len(t)
    /\ \E f \in [DOMAIN s -> DOMAIN s] :
          /\ \A a, b \in DOMAIN s : f[a] = f[b] => a = b
          /\ \A a \in DOMAIN s : t[a] = s[f[a]]

InitOrder ==
    /\ pc = "off"
    /\ coords = <<>>
    /\ samplePoints = <<>>
    /\ notableResults = <<>>
    /\ allBirds = <<>>
    /\ seenSightings = {}
    /\ notableSpecies = {}
    /\ ri = 0
    /\ rj = 0
    /\ idx = 0
    /\ status = 0
    /\ sent = 0
    /\ body = <<>>
    /\ received = {}
    /\ kinds = {}
    /\ curNew = {}
    /\ tainted = {}
    /\ query = [days |-> NotANumber, radius |-> NotANumber]
    /\ params = [days |-> 0, radius |-> 0]
    /\ issued = {}
    /\ settled = {}
    /\ orderA \in [notable : Arrivals, recent : Arrivals]
    /\ orderB \in [notable : Arrivals, recent : Arrivals]
    /\ IsPermutation(orderA.notable, orderB.notable)
    /\ IsPermutation(orderA.recent, orderB.recent)
    /\ merged = <<>>
    /\ SamplerIdle
    /\ RunsIdle
    /\ StoreIdle
    /\ RawIdle
    /\ ReqIdle
    /\ LoadIdle
    /\ NotifyIdle

MergeBoth ==
    /\ merged = <<>>
    /\ pc = "off"
    /\ merged' = <<mergeInOrder(orderA), mergeInOrder(orderB)>>
    /\ UNCHANGED <<orderA, orderB>>
    /\ UNCHANGED <<handlerVars, samplerVars, runVars, storeVars, rawVars, reqVars,
                 loadVars, notifyVars>>

NextOrder == MergeBoth

SpecOrder == InitOrder /\ [][NextOrder]_vars

(***************************************************************************)
(* sampleCoordinates taken alone, over the paths and the maxPoints a       *)
(* caller may pass.  A path is its coordinates numbered in travel order.   *)
(***************************************************************************)
MaxPathLen == 9     \* longest path sampled
MaxSamples == 5     \* largest maxPoints passed

InitSampler ==
    /\ HandlerIdle
    /\ OrderIdle
    /\ path \in {[i \in 1..n |-> i] : n \in 0..MaxPathLen}
    /\ maxPoints \in (0 - 1)..MaxSamples
    /\ sampled = [done |-> FALSE, threw |-> FALSE, points |-> <<>>]
    /\ routeSampled = [done |-> FALSE, points |-> <<>>]
    /\ RunsIdle
    /\ StoreIdle
    /\ RawIdle
    /\ ReqIdle
    /\ LoadIdle
    /\ NotifyIdle

(* the call returns: the function has no throw statement *)
Sample ==
    /\ ~sampled.done
    /\ pc = "off"
    /\ sampled' = [done |-> TRUE, threw |-> FALSE,
                   points |-> sampleCoordinates(path, maxPoints)]
    /\ UNCHANGED <<path, maxPoints, routeSampled>>
    /\ UNCHANGED <<handlerVars, orderVars, runVars, storeVars, rawVars, reqVars,
                 loadVars, notifyVars>>

(* sampleRoutePoints returns; with a negative maxPoints the loop over a
   route that is not empty never ends *)
SampleRoute ==
    /\ ~routeSampled.done
    /\ pc = "off"
    /\ Len(path) <= maxPoints \/ maxPoints >= 0 \/ Len(path) = 0
    /\ routeSampled' = [done |-> TRUE,
                        points |-> sampleRoutePoints(path, maxPoints)]
    /\ UNCHANGED <<path, maxPoints, sampled>>
    /\ UNCHANGED <<handlerVars, orderVars, runVars, storeVars, rawVars, reqVars,
                 loadVars, notifyVars>>

NextSampler == Sample \/ SampleRoute

SpecSampler == InitSampler /\ [][NextSampler]_vars

(***************************************************************************)
(* Two runs of the handler on one route, each query returning the same     *)
(* body in both.  In each run the notable queries settle in an order of    *)
(* their own; Promise.allSettled hands their values over in the order of   *)
(* the promises, the recent queries are awaited one after the other.       *)
(***************************************************************************)
MaxRunPoints == 2   \* most sample points of the route of the two runs

NotableBodies == {<<>>, <<1>>, <<2>>, <<4>>, <<1, 2>>, <<3, 1>>, <<2, 4>>}
RecentBodies == {<<>>, <<3, 2>>}

RECURSIVE flatten(_, _)
flatten(bodies, n) ==
    IF n = 0 THEN <<>> ELSE flatten(bodies, n - 1) \o bodies[n]

(* values taken in the order the queries settled *)
settledValuesAsCompleted(bodies, completion) ==
    [k \in DOMAIN completion |-> bodies[completion[k]]]

(* await Promise.allSettled(notablePromises): values in promise order *)
settledValues(bodies, completion) == [i \in DOMAIN bodies |-> bodies[i]]

(* the collection of a run whose notable queries settled in this order *)
runCollection(resp, completion) ==
    mergeInOrder(
        [notable |-> flatten(settledValues(resp.notable, completion),
                             Len(resp.notable)),
         recent |-> flatten(resp.recent, Len(resp.recent))])

InitRuns ==
    /\ HandlerIdle
    /\ OrderIdle
    /\ SamplerIdle
    /\ \E n \in 1..MaxRunPoints :
          runResp \in [notable : [1..n -> NotableBodies],
                       recent : [1..n -> RecentBodies]]
    /\ runOrder = <<<<>>, <<>>>>
    /\ runAnswer = <<[done |-> FALSE, body |-> <<>>],
                     [done |-> FALSE, body |-> <<>>]>>
    /\ StoreIdle
    /\ RawIdle
    /\ ReqIdle
    /\ LoadIdle
    /\ NotifyIdle

(* the notable query of sample point i settles in run r; the second run is
   taken after the first *)
RunSettle(r, i) ==
    /\ pc = "off"
    /\ r \in DOMAIN runOrder
    /\ i \in DOMAIN runResp.notable
    /\ \A k \in DOMAIN runOrder[r] : runOrder[r][k] # i
    /\ r = 2 => runAnswer[1].done
    /\ runOrder' = [runOrder EXCEPT ![r] = Append(@, i)]
    /\ UNCHANGED <<runResp, runAnswer>>
    /\ UNCHANGED <<handlerVars, orderVars, samplerVars, storeVars, rawVars, reqVars,
                 loadVars, notifyVars>>

(* run r folds, sorts and answers *)
RunAnswer(r) ==
    /\ pc = "off"
    /\ r \in DOMAIN runAnswer
    /\ ~runAnswer[r].done
    /\ Len(runOrder[r]) = Len(runResp.notable)
    /\ runAnswer' = [runAnswer EXCEPT
                       ![r] = [done |-> TRUE,
                               body |-> runCollection(runResp, runOrder[r])]]
    /\ UNCHANGED <<runResp, runOrder>>
    /\ UNCHANGED <<handlerVars, orderVars, samplerVars, storeVars, rawVars, reqVars,
                 loadVars, notifyVars>>

NextRuns ==
    \/ \E r \in 1..2, i \in 1..MaxRunPoints : RunSettle(r, i)
    \/ \E r \in 1..2 : RunAnswer(r)

SpecRuns == InitRuns /\ [][NextRuns]_vars

(***************************************************************************)
(* The client store: state, setState and applyFilters, and the handlers    *)
(* of the filter controls that write it.                                   *)
(*                                                                         *)
(* Coordinates are points of a grid whose unit is a quarter of a mile, and *)
(* the grid is small enough to be flat: the great-circle distance of two   *)
(* of its points is their planar distance.  A distance is kept as its      *)
(* square, an exact fraction <<numerator, denominator>>, because the       *)
(* projection on a segment falls between grid points.  Infinity is <<1,0>>.*)
(***************************************************************************)

(* bound: the aggregates the server answers with *)
MaxBirds == 3

(* the values of the distance select: 0.25 and 0.5 mile *)
DistanceChoices == {1, 2}

RarityChoices == {"all", "notable"}

(* the aggregates a load can bring: one per species; obsDt <<>> is a
   missing timestamp *)
StoreBirds ==
    { [speciesCode |-> "amerob", rarity |-> "common", lat |-> 2, lng |-> 1,
       obsDt |-> <<2, 0>>],
      [speciesCode |-> "snoowl", rarity |-> "rare", lat |-> 2, lng |-> 2,
       obsDt |-> <<1, 30>>],
      [speciesCode |-> "norcar", rarity |-> "common", lat |-> 6, lng |-> 0,
       obsDt |-> <<>>],
      [speciesCode |-> "baleag", rarity |-> "rare", lat |-> 0, lng |-> 1,
       obsDt |-> <<2, 0>>] }

(* the answers of fetchRecentBirds: lists of distinct aggregates *)
BirdLists ==
    UNION { { l \in [1..n -> StoreBirds] :
                \A i, j \in 1..n : l[i] = l[j] => i = j } : n \in 0..MaxBirds }

(* the coordinates displayRoute extracts: never an empty list *)
RouteChoices ==
    { << <<0, 0>> >>,
      << <<0, 0>>, <<4, 0>> >>,
      << <<0, 0>>, <<2, 2>> >>,
      << <<0, 0>>, <<0, 0>>, <<4, 0>> >> }

Infinity == <<1, 0>>

(* distance < minDistance, on squared distances *)
lessThan(a, b) == a[1] * b[2] < b[1] * a[2]

haversineDistance(lat1, lng1, lat2, lng2) ==
    <<(lat2 - lat1) * (lat2 - lat1) + (lng2 - lng1) * (lng2 - lng1), 1>>

(* the projection parameter t = num / len clamped to [0, 1]; the closest
   point is (x1 + t * dx, y1 + t * dy) *)
pointToSegmentDistance(px, py, x1, y1, x2, y2) ==
    LET dx == x2 - x1
        dy == y2 - y1
        num == (px - x1) * dx + (py - y1) * dy
        len == dx * dx + dy * dy
    IN  IF dx = 0 /\ dy = 0 THEN haversineDistance(px, py, x1, y1)
        ELSE IF num <= 0 THEN haversineDistance(px, py, x1, y1)
        ELSE IF num >= len THEN haversineDistance(px, py, x2, y2)
        ELSE <<((px - x1) * len - num * dx) * ((px - x1) * len - num * dx)
               + ((py - y1) * len - num * dy) * ((py - y1) * len - num * dy),
               len * len>>

RECURSIVE segmentLoop(_, _, _, _, _)
segmentLoop(lat, lng, routeCoords, i, minDistance) ==
    IF i > Len(routeCoords) - 1 THEN minDistance
    ELSE LET distance == pointToSegmentDistance(lat, lng,
                             routeCoords[i][1], routeCoords[i][2],
                             routeCoords[i + 1][1], routeCoords[i + 1][2])
         IN  segmentLoop(lat, lng, routeCoords, i + 1,
                         IF lessThan(distance, minDistance) THEN distance
                         ELSE minDistance)

RECURSIVE vertexLoop(_, _, _, _, _)
vertexLoop(lat, lng, routeCoords, i, minDistance) ==
    IF i > Len(routeCoords) THEN minDistance
    ELSE LET distance == haversineDistance(lat, lng, routeCoords[i][1],
                                           routeCoords[i][2])
         IN  vertexLoop(lat, lng, routeCoords, i + 1,
                        IF lessThan(distance, minDistance) THEN distance
                        ELSE minDistance)

getMinDistanceToRoute(lat, lng, routeCoords) ==
    vertexLoop(lat, lng, routeCoords, 1,
               segmentLoop(lat, lng, routeCoords, 1, Infinity))

(* a filter that keeps only what is nearer than the threshold *)
withinDistanceStrict(distanceToRoute, distanceFilter) ==
    distanceToRoute[1] < distanceFilter * distanceFilter * distanceToRoute[2]

(* distanceToRoute <= distanceFilter *)
withinDistance(distanceToRoute, distanceFilter) ==
    distanceToRoute[1] <= distanceFilter * distanceFilter * distanceToRoute[2]

distanceKeeps(bird, st) ==
    withinDistance(getMinDistanceToRoute(bird.lat, bird.lng, st.routeGeoJSON),
                   st.distanceFilter)

rarityKeeps(bird) == bird.rarity = "rare" \/ bird.rarity = "uncommon"

(* the two filter steps, each on the list the one before left *)
filterDistance(filtered, st) ==
    IF st.routeGeoJSON # <<>> /\ Len(st.routeGeoJSON) > 0
    THEN SelectSeq(filtered, LAMBDA bird : distanceKeeps(bird, st))
    ELSE filtered

filterRarity(filtered, st) ==
    IF st.rarityFilter = "notable" THEN SelectSeq(filtered, rarityKeeps)
    ELSE filtered

(* an array value together with whether it is the array state.birds is *)
sameArray(arr) == [items |-> arr, shared |-> TRUE]

(* [...birds]: a new array of the same elements *)
spread(arr) == [items |-> arr, shared |-> FALSE]

(* filters that are modes: the notable mode drops the distance test *)
filterBirdsExclusive(st) ==
    IF st.rarityFilter = "notable" THEN filterRarity(st.birds, st)
    ELSE filterDistance(st.birds, st)

filterBirds(st) ==
    filterRarity(filterDistance(spread(st.birds).items, st), st)

(* some call of Array.prototype.filter ran, which returns a new array *)
filterRan(st) ==
    \/ st.routeGeoJSON # <<>> /\ Len(st.routeGeoJSON) > 0
    \/ st.rarityFilter = "notable"

(* a missing timestamp taken for the latest date *)
dateOrEpochLatest(t) == IF t # <<>> THEN dateOf(t) ELSE dateOf(<<9, 0>>)

(* a.obsDt ? new Date(a.obsDt) : new Date(0) *)
dateOrEpoch(t) == IF t # <<>> THEN dateOf(t) ELSE 0

(* the stable sort with the comparator dateB - dateA *)
RECURSIVE recencyInsert(_, _)
recencyInsert(sorted, x) ==
    IF sorted = <<>> THEN <<x>>
    ELSE IF dateOrEpoch(x.obsDt) - dateOrEpoch(sorted[Len(sorted)].obsDt) > 0
         THEN Append(recencyInsert(SubSeq(sorted, 1, Len(sorted) - 1), x),
                     sorted[Len(sorted)])
         ELSE Append(sorted, x)

RECURSIVE recencySort(_, _)
recencySort(filtered, n) ==
    IF n = 0 THEN <<>>
    ELSE recencyInsert(recencySort(filtered, n - 1), filtered[n])

(* the keys of updates take their new values *)
setState(st, updates) ==
    [key \in DOMAIN st \cup DOMAIN updates |->
        IF key \in DOMAIN updates THEN updates[key] ELSE st[key]]

(* filtered.sort works in place: were filtered the array of state.birds,
   the sort would reorder state.birds as well *)
applyFilters(st) ==
    LET filtered == filterBirds(st)
        sorted == recencySort(filtered, Len(filtered))
        inPlace == IF spread(st.birds).shared /\ ~filterRan(st)
                   THEN [st EXCEPT !.birds = sorted]
                   ELSE st
    IN  setState(inPlace, [filteredBirds |-> sorted])

(* the other version of the store: rarity filter only, rare ones first *)
rarityOrder(rarity) ==
    IF rarity = "rare" THEN 0 ELSE IF rarity = "uncommon" THEN 1 ELSE 2

RECURSIVE rarityInsert(_, _)
rarityInsert(sorted, x) ==
    IF sorted = <<>> THEN <<x>>
    ELSE IF rarityOrder(x.rarity) - rarityOrder(sorted[Len(sorted)].rarity) < 0
         THEN Append(rarityInsert(SubSeq(sorted, 1, Len(sorted) - 1), x),
                     sorted[Len(sorted)])
         ELSE Append(sorted, x)

RECURSIVE raritySort(_, _)
raritySort(filtered, n) ==
    IF n = 0 THEN <<>>
    ELSE rarityInsert(raritySort(filtered, n - 1), filtered[n])

applyFiltersByRarity(st) ==
    LET filtered == IF st.rarityFilter = "notable"
                    THEN [items |-> SelectSeq(st.birds, rarityKeeps),
                          shared |-> FALSE]
                    ELSE spread(st.birds)
        sorted == raritySort(filtered.items, Len(filtered.items))
        inPlace == IF filtered.shared THEN [st EXCEPT !.birds = sorted]
                   ELSE st
    IN  setState(inPlace, [filteredBirds |-> sorted])

InitStore ==
    /\ HandlerIdle
    /\ OrderIdle
    /\ SamplerIdle
    /\ RunsIdle
    /\ StoreIdle
    /\ RawIdle
    /\ ReqIdle
    /\ LoadIdle
    /\ NotifyIdle

(* displayRoute stores the coordinates of the route *)
DisplayRoute(coordinates) ==
    /\ state' = setState(state, [routeGeoJSON |-> coordinates])
    /\ applied' = FALSE
    /\ UNCHANGED <<handlerVars, orderVars, samplerVars, runVars, rawVars, reqVars,
                 loadVars, notifyVars>>

(* loadBirdData after its await: the fetch answered with birds *)
LoadBirdData(birds) ==
    /\ state.routeGeoJSON # <<>>
    /\ state' = applyFilters(setState(state, [birds |-> birds]))
    /\ applied' = TRUE
    /\ UNCHANGED <<handlerVars, orderVars, samplerVars, runVars, rawVars, reqVars,
                 loadVars, notifyVars>>

(* loadBirdData after its await: the fetch threw *)
LoadBirdDataFailed ==
    /\ state.routeGeoJSON # <<>>
    /\ state' = setState(state, [birds |-> <<>>, filteredBirds |-> <<>>])
    /\ applied' = FALSE
    /\ UNCHANGED <<handlerVars, orderVars, samplerVars, runVars, rawVars, reqVars,
                 loadVars, notifyVars>>

handleDistanceFilterChange(distance) ==
    /\ state' = applyFilters(setState(state, [distanceFilter |-> distance]))
    /\ applied' = TRUE
    /\ UNCHANGED <<handlerVars, orderVars, samplerVars, runVars, rawVars, reqVars,
                 loadVars, notifyVars>>

setRarityFilter(filter) ==
    /\ state' = applyFilters(setState(state, [rarityFilter |-> filter]))
    /\ applied' = TRUE
    /\ UNCHANGED <<handlerVars, orderVars, samplerVars, runVars, rawVars, reqVars,
                 loadVars, notifyVars>>

NextStore ==
    \/ \E coordinates \in RouteChoices : DisplayRoute(coordinates)
    \/ \E birds \in BirdLists : LoadBirdData(birds)
    \/ LoadBirdDataFailed
    \/ \E distance \in DistanceChoices : handleDistanceFilterChange(distance)
    \/ \E filter \in RarityChoices : setRarityFilter(filter)

SpecStore == InitStore /\ [][NextStore]_vars

(***************************************************************************)
(* The two folds taken alone, on one notable and one recent body that may  *)
(* hold an observation without a species code.  bird.speciesCode of such   *)
(* an observation is undefined, which the template literal of the sighting *)
(* key prints as "undefined".                                              *)
(***************************************************************************)
MaxRaw == 2         \* most observations of one body

Undefined == "undefined"

RawObservations ==
    { Observations[1], Observations[4],
      [speciesCode |-> Undefined, comName |-> "Unknown",
       sciName |-> "Unknown", subId |-> "S9", obsDt |-> <<1, 50>>,
       howMany |-> 1, locName |-> "Park", lat |-> 1, lng |-> 1,
       obsReviewed |-> FALSE] }

RawBodies == UNION {[1..n -> RawObservations] : n \in 0..MaxRaw}

InitRaw ==
    /\ HandlerIdle
    /\ OrderIdle
    /\ SamplerIdle
    /\ RunsIdle
    /\ StoreIdle
    /\ ReqIdle
    /\ LoadIdle
    /\ NotifyIdle
    /\ rawBody \in [notable : RawBodies, recent : RawBodies]
    /\ rawAt = [notable |-> 0, recent |-> 0]
    /\ rawSt = st0

(* the notable loop takes the next observation of its body *)
RawNotableItem ==
    /\ rawAt.notable < Len(rawBody.notable)
    /\ rawSt' = notableFold(rawSt, rawBody.notable[rawAt.notable + 1])
    /\ rawAt' = [rawAt EXCEPT !.notable = @ + 1]
    /\ UNCHANGED rawBody
    /\ UNCHANGED <<handlerVars, orderVars, samplerVars, runVars, storeVars, reqVars,
                 loadVars, notifyVars>>

(* the recent loop, after the notable one, takes the next of its body *)
RawRecentItem ==
    /\ rawAt.notable = Len(rawBody.notable)
    /\ rawAt.recent < Len(rawBody.recent)
    /\ rawSt' = recentFold(rawSt, rawBody.recent[rawAt.recent + 1])
    /\ rawAt' = [rawAt EXCEPT !.recent = @ + 1]
    /\ UNCHANGED rawBody
    /\ UNCHANGED <<handlerVars, orderVars, samplerVars, runVars, storeVars, reqVars,
                 loadVars, notifyVars>>

NextRaw == RawNotableItem \/ RawRecentItem

SpecRaw == InitRaw /\ [][NextRaw]_vars

(***************************************************************************)
(* Two requests in one process.  A handler call runs from one await to the *)
(* next without interruption; at an await the other call may run.  The     *)
(* awaits of a call are Promise.allSettled of its notable queries and the  *)
(* fetch of each recent query; the sort and res.json follow the last fold  *)
(* in the same turn.  allBirds, seenSightings and notableSpecies are const *)
(* locals of the call.                                                     *)
(***************************************************************************)
MaxReqPoints == 1   \* most sample points of the route of a request

ReqNotableBodies == {<<>>, <<4>>, <<2, 4>>}
ReqRecentBodies == {<<>>, <<1>>, <<3, 2>>}

(* locals kept in one place for every call *)
sharedFrame(r) == 1

(* the frame that holds the locals of call r *)
ownFrame(r) == r

InitReq ==
    /\ HandlerIdle
    /\ OrderIdle
    /\ SamplerIdle
    /\ RunsIdle
    /\ StoreIdle
    /\ RawIdle
    /\ LoadIdle
    /\ NotifyIdle
    /\ reqResp \in
          [1..2 -> UNION {[notable : [1..n -> ReqNotableBodies],
                           recent : [1..n -> ReqRecentBodies]] :
                              n \in 1..MaxReqPoints}]
    /\ reqAt = [r \in 1..2 |-> [pc |-> "new", idx |-> 0]]
    /\ reqFrame = [r \in 1..2 |-> st0]
    /\ reqAnswer = [r \in 1..2 |-> [done |-> FALSE, body |-> <<>>]]

(* the call creates its Map and Sets, issues the notable queries, awaits *)
ReqStart(r) ==
    /\ reqAt[r].pc = "new"
    /\ reqFrame' = [reqFrame EXCEPT ![ownFrame(r)] = st0]
    /\ reqAt' = [reqAt EXCEPT ![r] = [pc |-> "notableWait", idx |-> 0]]
    /\ UNCHANGED <<reqResp, reqAnswer>>
    /\ UNCHANGED <<handlerVars, orderVars, samplerVars, runVars, storeVars,
                   rawVars, loadVars, notifyVars>>

(* the notable queries have settled: the notable loop, then the first
   recent fetch *)
ReqNotable(r) ==
    /\ reqAt[r].pc = "notableWait"
    /\ LET obs == flatten(reqResp[r].notable, Len(reqResp[r].notable))
       IN  reqFrame' = [reqFrame EXCEPT
                          ![ownFrame(r)] =
                              foldNotableSeq(reqFrame[ownFrame(r)], obs,
                                             Len(obs))]
    /\ reqAt' = [reqAt EXCEPT ![r] = [pc |-> "recentWait", idx |-> 1]]
    /\ UNCHANGED <<reqResp, reqAnswer>>
    /\ UNCHANGED <<handlerVars, orderVars, samplerVars, runVars, storeVars,
                   rawVars, loadVars, notifyVars>>

(* a recent fetch has returned: its body is folded; after the last one the
   sightings are sorted and the collection is sent *)
ReqRecent(r) ==
    /\ reqAt[r].pc = "recentWait"
    /\ LET obs == reqResp[r].recent[reqAt[r].idx]
           st == foldRecentSeq(reqFrame[ownFrame(r)], obs, Len(obs))
       IN  /\ reqFrame' = [reqFrame EXCEPT ![ownFrame(r)] = st]
           /\ IF reqAt[r].idx < Len(reqResp[r].recent)
              THEN /\ reqAt' = [reqAt EXCEPT ![r].idx = @ + 1]
                   /\ UNCHANGED reqAnswer
              ELSE /\ reqAt' = [reqAt EXCEPT ![r].pc = "done"]
                   /\ reqAnswer' = [reqAnswer EXCEPT
                                      ![r] = [done |-> TRUE,
                                              body |-> sortAll(st.allBirds)]]
    /\ UNCHANGED reqResp
    /\ UNCHANGED <<handlerVars, orderVars, samplerVars, runVars, storeVars,
                   rawVars, loadVars, notifyVars>>

NextReq ==
    \E r \in 1..2 : ReqStart(r) \/ ReqNotable(r) \/ ReqRecent(r)

SpecReq == InitReq /\ [][NextReq]_vars

(***************************************************************************)
(* Loads of the client.  A change of the time window stores the window and *)
(* calls loadBirdData, which reads the window, starts the fetch and, when  *)
(* the fetch returns, stores its birds and applies the filters.  A fetch   *)
(* in flight is not cancelled by a later one and its answer carries no     *)
(* mark of the call it belongs to.  The route is on display.               *)
(***************************************************************************)
MaxInflight == 2    \* most fetches in flight at a time

(* the values of the time window select *)
TimeWindows == {7, 14, 30}

Bird(code) == CHOOSE b \in StoreBirds : b.speciesCode = code

(* what the server answers for a window: a longer window shows more *)
fetchedBirds(days) ==
    IF days = 7 THEN <<Bird("amerob")>>
    ELSE IF days = 14 THEN <<Bird("amerob"), Bird("snoowl")>>
    ELSE <<Bird("amerob"), Bird("snoowl"), Bird("norcar")>>

InFlightCount == inflight[7] + inflight[14] + inflight[30]

InitLoad ==
    /\ HandlerIdle
    /\ OrderIdle
    /\ SamplerIdle
    /\ RunsIdle
    /\ RawIdle
    /\ ReqIdle
    /\ NotifyIdle
    /\ state = setState(initialState,
                        [routeGeoJSON |-> << <<0, 0>>, <<4, 0>> >>])
    /\ applied = FALSE
    /\ inflight = [d \in TimeWindows |-> 0]
    /\ loadedFor = 0

(* the select changes to another value; loadBirdData runs up to its await *)
handleTimeWindowChange(days) ==
    /\ days # state.timeWindow
    /\ InFlightCount < MaxInflight
    /\ state' = setState(state, [timeWindow |-> days])
    /\ inflight' = [inflight EXCEPT ![days] = @ + 1]
    /\ UNCHANGED <<applied, loadedFor>>
    /\ UNCHANGED <<handlerVars, orderVars, samplerVars, runVars, rawVars,
                   reqVars, notifyVars>>

(* a fetch in flight returns its birds: setState({ birds }), applyFilters() *)
LoadReturned(days) ==
    /\ inflight[days] > 0
    /\ inflight' = [inflight EXCEPT ![days] = @ - 1]
    /\ state' = applyFilters(setState(state, [birds |-> fetchedBirds(days)]))
    /\ applied' = TRUE
    /\ loadedFor' = days
    /\ UNCHANGED <<handlerVars, orderVars, samplerVars, runVars, rawVars,
                   reqVars, notifyVars>>

(* a fetch in flight throws: the catch empties both lists *)
LoadThrew(days) ==
    /\ inflight[days] > 0
    /\ inflight' = [inflight EXCEPT ![days] = @ - 1]
    /\ state' = setState(state, [birds |-> <<>>, filteredBirds |-> <<>>])
    /\ applied' = FALSE
    /\ loadedFor' = days
    /\ UNCHANGED <<handlerVars, orderVars, samplerVars, runVars, rawVars,
                   reqVars, notifyVars>>

NextLoad ==
    \/ \E days \in TimeWindows : handleTimeWindowChange(days)
    \/ \E days \in TimeWindows : LoadReturned(days)
    \/ \E days \in TimeWindows : LoadThrew(days)
    \/ \E distance \in DistanceChoices : handleDistanceFilterChange(distance)
    \/ \E filter \in RarityChoices : setRarityFilter(filter)

SpecLoad == InitLoad /\ [][NextLoad]_vars

(***************************************************************************)
(* Notification.  setState assigns the keys whose value differs (!==) from *)
(* the one stored, then calls the subscribers of every changed key and,    *)
(* if any key changed, the subscribers of '*'.  An array is a reference:   *)
(* it is kept as [ref |-> n], and every array a caller builds is new.  No  *)
(* subscriber writes the store while it is being notified.                 *)
(***************************************************************************)
MaxRef == 2         \* most arrays created
MaxSubs == 3        \* most subscriptions held at a time

(* the keys written in this part, in the order callers write them *)
KeyOrder == <<"rarityFilter", "filteredBirds">>
Topics == {"rarityFilter", "filteredBirds", "*"}
Callbacks == {"renderBirdList", "updateFilterUI"}

notifyState0 == [rarityFilter |-> "all", filteredBirds |-> [ref |-> 0]]

(* every key of the updates counted as changed *)
changedKeysAll(st, updates) == DOMAIN updates

(* the keys with state[key] !== value *)
changedKeys(st, updates) ==
    {key \in DOMAIN updates : key \notin DOMAIN st \/ st[key] # updates[key]}

(* for (const callback of subscribers.get(key)) callback(...) *)
callAll(subs, key) == [i \in DOMAIN subs[key] |-> <<key, subs[key][i]>>]

(* the loop over changedKeys *)
RECURSIVE notifyKeys(_, _, _)
notifyKeys(subs, changed, n) ==
    IF n = 0 THEN <<>>
    ELSE notifyKeys(subs, changed, n - 1)
            \o (IF KeyOrder[n] \in changed THEN callAll(subs, KeyOrder[n])
                ELSE <<>>)

(* the calls one setState makes *)
notifications(subs, st, updates) ==
    notifyKeys(subs, changedKeys(st, updates), Len(KeyOrder))
        \o (IF changedKeys(st, updates) # {} THEN callAll(subs, "*") ELSE <<>>)

SubscriptionCount ==
    Len(subscribers["rarityFilter"]) + Len(subscribers["filteredBirds"])
        + Len(subscribers["*"])

InitNotify ==
    /\ HandlerIdle
    /\ OrderIdle
    /\ SamplerIdle
    /\ RunsIdle
    /\ RawIdle
    /\ ReqIdle
    /\ LoadIdle
    /\ state = notifyState0
    /\ applied = FALSE
    /\ subscribers = [t \in Topics |-> <<>>]
    /\ invoked = <<>>
    /\ lastCall = [made |-> FALSE]
    /\ nextRef = 0

(* subscribe(key, callback): a Set holds a callback once *)
Subscribe(key, callback) ==
    /\ SubscriptionCount < MaxSubs
    /\ \A i \in DOMAIN subscribers[key] : subscribers[key][i] # callback
    /\ subscribers' = [subscribers EXCEPT ![key] = Append(@, callback)]
    /\ UNCHANGED <<state, applied, invoked, lastCall, nextRef>>
    /\ UNCHANGED <<handlerVars, orderVars, samplerVars, runVars, rawVars,
                   reqVars, loadVars>>

(* the function subscribe returned is called *)
Unsubscribe(key, callback) ==
    /\ \E i \in DOMAIN subscribers[key] : subscribers[key][i] = callback
    /\ subscribers' = [subscribers EXCEPT
                         ![key] = SelectSeq(@, LAMBDA c : c # callback)]
    /\ UNCHANGED <<state, applied, invoked, lastCall, nextRef>>
    /\ UNCHANGED <<handlerVars, orderVars, samplerVars, runVars, rawVars,
                   reqVars, loadVars>>

(* setState(updates) *)
SetState(updates) ==
    /\ state' = setState(state, updates)
    /\ invoked' = notifications(subscribers, state, updates)
    /\ lastCall' = [made |-> TRUE, before |-> state, subs |-> subscribers,
                    updates |-> updates]
    /\ UNCHANGED <<applied, subscribers>>
    /\ UNCHANGED <<handlerVars, orderVars, samplerVars, runVars, rawVars,
                   reqVars, loadVars>>

(* setState({ rarityFilter: filter }) of setRarityFilter *)
SetRarity(filter) ==
    /\ SetState([rarityFilter |-> filter])
    /\ UNCHANGED nextRef

(* setState({ filteredBirds: filtered }) of applyFilters: a new array *)
SetFiltered ==
    /\ nextRef < MaxRef
    /\ nextRef' = nextRef + 1
    /\ SetState([filteredBirds |-> [ref |-> nextRef + 1]])

(* one call writing both keys, the array being a new one *)
SetBoth(filter) ==
    /\ nextRef < MaxRef
    /\ nextRef' = nextRef + 1
    /\ SetState([rarityFilter |-> filter,
                 filteredBirds |-> [ref |-> nextRef + 1]])

NextNotify ==
    \/ \E key \in Topics, callback \in Callbacks : Subscribe(key, callback)
    \/ \E key \in Topics, callback \in Callbacks : Unsubscribe(key, callback)
    \/ \E filter \in RarityChoices : SetRarity(filter)
    \/ SetFiltered
    \/ \E filter \in RarityChoices : SetBoth(filter)

SpecNotify == InitNotify /\ [][NextNotify]_vars

(***************************************************************************)
(* What the histories say.                                                 *)
(***************************************************************************)

(* observations read so far, of either mode *)
Delivered == {r[2] : r \in received}

(* observations read from notable bodies, from recent bodies *)
NotableDelivered == {r[2] : r \in {q \in received : q[1] = "notable"}}
RecentDelivered == {r[2] : r \in {q \in received : q[1] = "recent"}}

(* the aggregate m holds a sighting of observation e under e's species *)
Holds(m, e) ==
    \E i \in DOMAIN m :
        /\ m[i].speciesCode = Observations[e].speciesCode
        /\ \E k \in DOMAIN m[i].sightings :
               m[i].sightings[k].subId = Observations[e].subId

(* the answer is the collection *)
Answered == pc = "done" /\ status = 200

(* outcomes of the settled queries *)
SomeFailed == \E k \in kinds : k[2] \in {"error", "status"}
SomeSucceeded == \E k \in kinds : k[2] = "list"
SomeMalformed == \E k \in kinds : k[2] \in {"notlist", "nullitem"}

(***************************************************************************)
(* C1. Idempotent dedup: no aggregate ever holds two sightings with the    *)
(* same (speciesCode, subId), whatever was returned, how often and by      *)
(* which mode.                                                             *)
(***************************************************************************)
NoDuplicateIn(m) ==
    \A i \in DOMAIN m : \A a, b \in DOMAIN m[i].sightings :
        a # b => m[i].sightings[a].subId # m[i].sightings[b].subId

C1_IdempotentDedup == NoDuplicateIn(allBirds) /\ NoDuplicateIn(body)

(* the same observation came by both modes, next to another of its species *)
C1_Witness ==
    /\ Answered
    /\ <<"notable", 1>> \in received
    /\ <<"recent", 1>> \in received
    /\ <<"recent", 2>> \in received
    /\ \E i \in DOMAIN body : Len(body[i].sightings) = 2

(***************************************************************************)
(* C2. Every distinct sighting is preserved: every (speciesCode, subId)    *)
(* read from a response is a sighting of the aggregate of that species,    *)
(* during the merge and in the answer; so two observations of one species  *)
(* with distinct subIds are two sightings.                                 *)
(***************************************************************************)
C2_SightingsPreserved ==
    /\ \A e \in Delivered : Holds(allBirds, e)
    /\ Answered => \A e \in Delivered : Holds(body, e)

(* two robins with distinct subIds and an owl that shares a subId with one *)
C2_Witness ==
    /\ Answered
    /\ {1, 2, 4} \subseteq Delivered
    /\ \E i \in DOMAIN body :
          body[i].speciesCode = "amerob" /\ Len(body[i].sightings) >= 2

(***************************************************************************)
(* C3. Primary freshness: in the answer, every aggregate's obsDt is the    *)
(* greatest obsDt of its sightings.                                        *)
(***************************************************************************)
PrimaryIsLatest(agg) ==
    /\ \E k \in DOMAIN agg.sightings : agg.sightings[k].obsDt = agg.obsDt
    /\ \A k \in DOMAIN agg.sightings :
          ~obsDtGreater(agg.sightings[k].obsDt, agg.obsDt)

C3_PrimaryFreshness ==
    Answered => \A i \in DOMAIN body : PrimaryIsLatest(body[i])

(***************************************************************************)
(* C4. Sighting order law: in the answer, every aggregate's sightings are  *)
(* in descending order of their time.                                      *)
(***************************************************************************)
Descending(s) ==
    \A k \in 1..(Len(s) - 1) : dateOf(s[k].obsDt) >= dateOf(s[k + 1].obsDt)

C4_SightingOrder ==
    Answered => \A i \in DOMAIN body : Descending(body[i].sightings)

(* the robin seen first is the oldest of three, and is not listed first *)
C4_Witness ==
    /\ Answered
    /\ \E i \in DOMAIN body :
          /\ Len(body[i].sightings) = 3
          /\ body[i].subId = "S1"
          /\ body[i].sightings[3].subId = "S1"

(***************************************************************************)
(* C5. Monotonic rarity: from the moment a notable body yields an          *)
(* observation of a species, the aggregate of that species is 'rare', in   *)
(* every later state of the merge and in the answer.                       *)
(***************************************************************************)
RareIn(m, code) ==
    \A i \in DOMAIN m : m[i].speciesCode = code => m[i].rarity = "rare"

C5_MonotonicRarity ==
    \A e \in NotableDelivered :
        /\ RareIn(allBirds, Observations[e].speciesCode)
        /\ RareIn(body, Observations[e].speciesCode)

(* a notable robin, then unreviewed recent robins *)
C5_Witness ==
    /\ Answered
    /\ 1 \in NotableDelivered
    /\ {1, 3} \subseteq RecentDelivered
    /\ \E i \in DOMAIN body :
          body[i].speciesCode = "amerob" /\ Len(body[i].sightings) = 2

(***************************************************************************)
(* C6. Rarity is exactly: in the answer an aggregate is 'rare' if and only *)
(* if its species was in a notable body or one of the observations merged  *)
(* into it carried obsReviewed.                                            *)
(***************************************************************************)
MergedReviewed(agg) ==
    \E e \in Delivered :
        /\ Observations[e].speciesCode = agg.speciesCode
        /\ Observations[e].obsReviewed
        /\ \E k \in DOMAIN agg.sightings :
               agg.sightings[k].subId = Observations[e].subId

InNotable(code) ==
    \E e \in NotableDelivered : Observations[e].speciesCode = code

C6_RarityExactly ==
    Answered =>
        \A i \in DOMAIN body :
            body[i].rarity =
                IF InNotable(body[i].speciesCode) \/ MergedReviewed(body[i])
                THEN "rare" ELSE "common"

(***************************************************************************)
(* C7. Merge order independence: two arrival orders of the same notable    *)
(* and the same recent observations give the same species, and for every   *)
(* species the same rarity, the same primary fields and the same set of    *)
(* sightings.                                                              *)
(***************************************************************************)
DisplayOf(agg) ==
    [speciesCode |-> agg.speciesCode, comName |-> agg.comName,
     sciName |-> agg.sciName, rarity |-> agg.rarity, lat |-> agg.lat,
     lng |-> agg.lng, obsDt |-> agg.obsDt, howMany |-> agg.howMany,
     locName |-> agg.locName, subId |-> agg.subId,
     sightings |-> {agg.sightings[k] : k \in DOMAIN agg.sightings}]

ResultOf(m) == {DisplayOf(m[i]) : i \in DOMAIN m}

C7_OrderIndependence ==
    merged # <<>> => ResultOf(merged[1]) = ResultOf(merged[2])

(***************************************************************************)
(* C8. A species that only notable bodies returned is in the answer, is    *)
(* 'rare', and has every one of its notable sightings.                     *)
(***************************************************************************)
NotableOnly(code) ==
    /\ InNotable(code)
    /\ \A e \in RecentDelivered : Observations[e].speciesCode # code

C8_NotableOnlyPresent ==
    Answered =>
        \A e \in NotableDelivered :
            NotableOnly(Observations[e].speciesCode) =>
                /\ Holds(body, e)
                /\ RareIn(body, Observations[e].speciesCode)

(* the owl came by notable mode only, robins came by recent mode *)
C8_Witness ==
    /\ Answered
    /\ 4 \in NotableDelivered
    /\ NotableOnly("snoowl")
    /\ 1 \in RecentDelivered
    /\ Len(body) = 2

(***************************************************************************)
(* C9. Per-query failure is non-fatal: when some queries failed (network   *)
(* error or non-success status) and some succeeded, the call answers 200   *)
(* and the sightings of the answer are exactly those the succeeding        *)
(* queries returned.                                                       *)
(***************************************************************************)
SightingPairs(m) ==
    UNION {{<<m[i].speciesCode, m[i].sightings[k].subId>> :
               k \in DOMAIN m[i].sightings} : i \in DOMAIN m}

DeliveredPairs ==
    {<<Observations[e].speciesCode, Observations[e].subId>> : e \in Delivered}

C9_FailureNonFatal ==
    (pc = "done" /\ SomeFailed /\ SomeSucceeded /\ ~SomeMalformed) =>
        /\ status = 200
        /\ SightingPairs(body) = DeliveredPairs

(* a notable query threw, a recent query got a non-success status, others
   returned observations *)
C9_Witness ==
    /\ Answered
    /\ <<"notable", "error">> \in kinds
    /\ <<"recent", "status">> \in kinds
    /\ <<"notable", "list">> \in kinds
    /\ <<"recent", "list">> \in kinds
    /\ 4 \in NotableDelivered
    /\ 2 \in RecentDelivered

(***************************************************************************)
(* C10. A malformed payload of one query is recovered locally: the call    *)
(* is not answered with 500 and the malformed body adds no observation.    *)
(***************************************************************************)
C10_MalformedRecovered ==
    (pc = "done" /\ SomeMalformed) => (status = 200 /\ tainted = {})

(***************************************************************************)
(* C11. When every query of the call failed, the answer is an empty        *)
(* collection with metadata that tells it from the answer of a call whose  *)
(* queries all succeeded and returned nothing, which is 200 with [].       *)
(***************************************************************************)
AllFailed == kinds # {} /\ \A k \in kinds : k[2] \in {"error", "status"}

C11_IncompleteMetadata ==
    (pc = "done" /\ AllFailed) =>
        /\ status = 200
        /\ <<status, body>> # <<200, <<>>>>

(***************************************************************************)
(* C12. A call with an empty path is answered 400 at once: no sample       *)
(* point, no query issued, nothing merged.                                 *)
(***************************************************************************)
C12_EmptyPathRejected ==
    (Len(coords) = 0 /\ pc # "start" /\ pc # "off") =>
        /\ pc = "done"
        /\ status = 400
        /\ samplePoints = <<>>
        /\ issued = {}
        /\ allBirds = <<>>
        /\ body = <<>>

C12_Witness == Len(coords) = 0 /\ pc = "done" /\ status = 400

(***************************************************************************)
(* C13. A call with a non-positive days or radius is answered with an      *)
(* invalid-argument error before any query is issued; the value is neither *)
(* replaced by a default nor sent to eBird.                                *)
(***************************************************************************)
NonPositive(q) == q.given /\ q.value <= 0

C13_NonPositiveRejected ==
    (pc # "start" /\ (NonPositive(query.days) \/ NonPositive(query.radius))) =>
        /\ status = 400
        /\ issued = {}

(***************************************************************************)
(* C16. All queries of a call run concurrently: while any query is         *)
(* outstanding, every notable and every recent query of the call has been  *)
(* issued.                                                                 *)
(***************************************************************************)
Outstanding == {q \in issued : <<q.mode, q.point>> \notin settled}

C16_AllConcurrent ==
    Outstanding # {} => Cardinality(issued) = 2 * Len(samplePoints)

(***************************************************************************)
(* C14. Sampler bound: for a non-empty path and maxPoints >= 1 the sampler *)
(* returns at most maxPoints coordinates, and the path itself when the     *)
(* path has at most maxPoints coordinates.                                 *)
(***************************************************************************)
C14_SamplerBound ==
    (sampled.done /\ Len(path) >= 1 /\ maxPoints >= 1) =>
        /\ Len(sampled.points) <= maxPoints
        /\ Len(path) <= maxPoints => sampled.points = path

(* seven coordinates cut down to three *)
C14_Witness ==
    /\ sampled.done
    /\ Len(path) = 7
    /\ maxPoints = 3
    /\ Len(sampled.points) = 3

(***************************************************************************)
(* C15. The sampler fails with InvalidArgument, returning no sample point, *)
(* exactly when maxPoints < 1 or the path is empty.                        *)
(***************************************************************************)
C15_SamplerRejects ==
    sampled.done =>
        /\ sampled.threw <=> (maxPoints < 1 \/ Len(path) = 0)
        /\ sampled.threw => sampled.points = <<>>

(***************************************************************************)
(* C17. Determinism: two runs on the same route in which every query       *)
(* returns the same body answer with identical collections, whatever the   *)
(* order in which the queries of each run completed.                       *)
(***************************************************************************)
C17_Determinism ==
    (runAnswer # <<>> /\ runAnswer[1].done /\ runAnswer[2].done) =>
        runAnswer[1].body = runAnswer[2].body

(* the notable queries completed in opposite orders and returned two
   sightings of one species *)
C17_Witness ==
    /\ runAnswer # <<>>
    /\ runAnswer[1].done
    /\ runAnswer[2].done
    /\ runOrder[1] = <<1, 2>>
    /\ runOrder[2] = <<2, 1>>
    /\ runResp.notable = <<<<2>>, <<1>>>>
    /\ Len(runAnswer[2].body[1].sightings) = 2

(* the aggregates of a list, as a set *)
SetOf(seq) == {seq[i] : i \in DOMAIN seq}

RoutePresent == state.routeGeoJSON # <<>>

(* the squared distance of an aggregate to the route stored, and the square
   of the threshold stored *)
DistanceOf(b) == getMinDistanceToRoute(b.lat, b.lng, state.routeGeoJSON)
AtThreshold(b) ==
    DistanceOf(b)[1] = state.distanceFilter * state.distanceFilter * DistanceOf(b)[2]
Beyond(b) ==
    DistanceOf(b)[1] > state.distanceFilter * state.distanceFilter * DistanceOf(b)[2]

(* C18: with a route stored, applyFilters removes every aggregate whose
   minimum distance to the route is beyond the threshold, and, the rarity
   filter showing all, keeps every aggregate at or within the threshold *)
C18_ProximityFilter ==
    (applied /\ RoutePresent) =>
        \A b \in SetOf(state.birds) :
            /\ Beyond(b) => b \notin SetOf(state.filteredBirds)
            /\ (~Beyond(b) /\ state.rarityFilter = "all")
                   => b \in SetOf(state.filteredBirds)

(* an aggregate exactly at the threshold was kept, one beyond was removed *)
C18_Witness ==
    /\ applied /\ RoutePresent /\ state.rarityFilter = "all"
    /\ \E b \in SetOf(state.filteredBirds) : AtThreshold(b)
    /\ \E b \in SetOf(state.birds) :
          Beyond(b) /\ b \notin SetOf(state.filteredBirds)

(* what each predicate alone keeps of the aggregates stored *)
DistanceAlone ==
    {b \in SetOf(state.birds) : RoutePresent => ~Beyond(b)}
RarityAlone ==
    {b \in SetOf(state.birds) :
        state.rarityFilter = "notable" => b.rarity \in {"rare", "uncommon"}}

(* C19: the aggregates applyFilters keeps are those the distance predicate
   alone keeps and the rarity predicate alone keeps; the two filter steps
   taken in the other order keep the same set *)
C19_FiltersCompose ==
    applied =>
        /\ SetOf(state.filteredBirds) = DistanceAlone \cap RarityAlone
        /\ SetOf(filterDistance(filterRarity(state.birds, state), state))
               = SetOf(state.filteredBirds)

(* both filters acted: one aggregate fell to the distance alone, one to the
   rarity alone, one was kept *)
C19_Witness ==
    /\ applied /\ RoutePresent /\ state.rarityFilter = "notable"
    /\ (RarityAlone \ DistanceAlone) # {}
    /\ (DistanceAlone \ RarityAlone) # {}
    /\ state.filteredBirds # <<>>

HasTimestamp(b) == b.obsDt # <<>>
Timestamp(b) == IF HasTimestamp(b) THEN dateOf(b.obsDt) ELSE 0

(* C20: after applyFilters, filteredBirds is in descending order of the
   primary timestamp, and no aggregate without a timestamp precedes one
   that has a timestamp *)
C20_RecencyOrder ==
    applied =>
        \A i, j \in DOMAIN state.filteredBirds :
            i < j =>
                /\ Timestamp(state.filteredBirds[i])
                       >= Timestamp(state.filteredBirds[j])
                /\ HasTimestamp(state.filteredBirds[j])
                       => HasTimestamp(state.filteredBirds[i])

(* the load brought the aggregate without a timestamp first and the latest
   one last; the list shown has them the other way round *)
C20_Witness ==
    /\ applied
    /\ Len(state.birds) = 3 /\ Len(state.filteredBirds) = 3
    /\ ~HasTimestamp(state.birds[1])
    /\ ~HasTimestamp(state.filteredBirds[3])
    /\ state.filteredBirds[1] = state.birds[3]
    /\ state.filteredBirds[2] = state.birds[2]

(***************************************************************************)
(* C21. Fixed-stride decimation: a path longer than maxPoints (at least 1) *)
(* is cut down to the coordinates at the indices 0, stride, 2 * stride,    *)
(* ... with stride = floor(len(path) / maxPoints), in path order, maxPoints*)
(* of them.                                                                *)
(***************************************************************************)
C21_FixedStride ==
    (sampled.done /\ maxPoints >= 1 /\ Len(path) > maxPoints) =>
        sampled.points =
            [k \in 1..maxPoints |->
                path[(k - 1) * (Len(path) \div maxPoints) + 1]]

(* eight coordinates, three asked for: stride 2, indices 0, 2 and 4 *)
C21_Witness ==
    /\ sampled.done
    /\ Len(path) = 8
    /\ maxPoints = 3
    /\ sampled.points = <<path[1], path[3], path[5]>>

(***************************************************************************)
(* C22. The two phases in order: whenever a recent observation is merged,  *)
(* every notable query has settled and notableSpecies holds the species    *)
(* code of every observation the notable bodies held; no step that merges  *)
(* a recent observation changes the set.                                   *)
(***************************************************************************)
NotableCodes == {Observations[e].speciesCode : e \in NotableDelivered}

C22_NotableSetFirst ==
    [][(received' # received /\ RecentDelivered' # {}) =>
          /\ \A i \in DOMAIN samplePoints : <<"notable", i>> \in settled'
          /\ notableSpecies' = NotableCodes'
          /\ notableSpecies' = notableSpecies]_vars

(* a recent robin is merged after a notable owl and a notable robin *)
C22_Witness ==
    /\ <<"notable", 4>> \in received
    /\ <<"notable", 2>> \in received
    /\ <<"recent", 1>> \in received
    /\ notableSpecies = {"snoowl", "amerob"}

(***************************************************************************)
(* C23. Fan-in point: no observation is folded into allBirds before every  *)
(* query of the call, notable and recent, of every sample point, has       *)
(* settled.                                                                *)
(***************************************************************************)
C23_FanIn ==
    received # {} =>
        \A i \in DOMAIN samplePoints :
            <<"notable", i>> \in settled /\ <<"recent", i>> \in settled

(***************************************************************************)
(* C24. Malformed observations are dropped: an observation without a       *)
(* species code creates no aggregate, adds no sighting and no sighting     *)
(* key, and adds nothing to the notable set.                               *)
(***************************************************************************)
Malformed == {o \in RawObservations : o.speciesCode = Undefined}

C24_MalformedDropped ==
    /\ Undefined \notin rawSt.notableSpecies
    /\ \A i \in DOMAIN rawSt.allBirds :
          rawSt.allBirds[i].speciesCode # Undefined
    /\ \A o \in Malformed : sightingKey(o) \notin rawSt.seenSightings

(***************************************************************************)
(* C25. Request isolation: of two requests handled with their awaits       *)
(* interleaved, each is answered with the collection it would be answered  *)
(* with if it ran alone.                                                   *)
(***************************************************************************)
AloneAnswer(r) ==
    mergeInOrder([notable |-> flatten(reqResp[r].notable,
                                      Len(reqResp[r].notable)),
                  recent |-> flatten(reqResp[r].recent,
                                     Len(reqResp[r].recent))])

C25_RequestIsolation ==
    reqAnswer # <<>> =>
        \A r \in 1..2 : reqAnswer[r].done => reqAnswer[r].body = AloneAnswer(r)

(* the second request folded its robins while the first, which saw only
   the owl, stood at its recent fetch; the first answers with the owl *)
C25_Witness ==
    /\ reqAnswer # <<>>
    /\ reqAnswer[1].done
    /\ reqAt[2].pc = "recentWait"
    /\ reqResp[1].notable = <<<<4>>>>
    /\ reqResp[2].notable = <<<<2, 4>>>>
    /\ Len(reqAnswer[1].body) = 1
    /\ Len(reqFrame[2].allBirds) = 2

(***************************************************************************)
(* C26. sampleRoutePoints returns at most maxPoints coordinates, for every *)
(* route and every maxPoints >= 1, the appended last point included.       *)
(***************************************************************************)
C26_RouteSamplerBound ==
    (routeSampled.done /\ maxPoints >= 1) =>
        Len(routeSampled.points) <= maxPoints

(***************************************************************************)
(* C27. Stale-response safety: once no fetch is in flight, the birds in    *)
(* the store are those fetched for the time window selected, never those   *)
(* of a request a later one superseded.                                    *)
(***************************************************************************)
C27_NoStaleLoad ==
    (inflight # <<>> /\ InFlightCount = 0 /\ loadedFor # 0) =>
        loadedFor = state.timeWindow

(***************************************************************************)
(* C28. Exactly one response: the handler never sends a second response,   *)
(* it has sent one when it ends, and, every query settling, it ends: with  *)
(* 400 for no coordinates, 200 with the collection or 500 after an error.  *)
(***************************************************************************)
C28_ExactlyOneResponse ==
    /\ [](sent <= 1)
    /\ [](pc = "done" => (sent = 1 /\ status \in {400, 200, 500}))
    /\ <>(pc = "done")

(* the notable loop threw and the catch answered 500, once *)
C28_Witness == pc = "done" /\ status = 500 /\ sent = 1 /\ received # {}

(***************************************************************************)
(* C29. Frame of applyFilters: applied to the store, either version of     *)
(* applyFilters leaves every key but filteredBirds as it was; state.birds  *)
(* keeps its elements and their order.                                     *)
(***************************************************************************)
SameButFiltered(after, before) ==
    /\ DOMAIN after = DOMAIN before
    /\ \A key \in DOMAIN before \ {"filteredBirds"} : after[key] = before[key]

C29_ApplyFiltersFrame ==
    /\ SameButFiltered(applyFilters(state), state)
    /\ SameButFiltered(applyFiltersByRarity(state), state)

(* three birds are stored in an order that is neither the recency order nor
   the rarity order; every one of them passes the filters *)
C29_Witness ==
    /\ applied
    /\ state.rarityFilter = "all"
    /\ Len(state.birds) = 3
    /\ Len(state.filteredBirds) = 3
    /\ state.filteredBirds # state.birds
    /\ applyFiltersByRarity(state).filteredBirds # state.birds
    /\ Len(applyFiltersByRarity(state).filteredBirds) = 3

(***************************************************************************)
(* C30. setState notifies exactly the changed keys: in one call every      *)
(* callback subscribed to a key is called once for it if the value of the  *)
(* key changed and not at all if it did not; a call that changes no value  *)
(* calls no subscriber, those of '*' included.                             *)
(***************************************************************************)
Changed(key) ==
    /\ key \in DOMAIN lastCall.updates
    /\ lastCall.before[key] # lastCall.updates[key]

Subscribed(key, callback) ==
    \E i \in DOMAIN lastCall.subs[key] : lastCall.subs[key][i] = callback

TimesCalled(key, callback) ==
    Cardinality({i \in DOMAIN invoked : invoked[i] = <<key, callback>>})

C30_NotifiesChangedKeys ==
    lastCall.made =>
        /\ \A key \in DOMAIN lastCall.before, callback \in Callbacks :
              TimesCalled(key, callback) =
                  IF Changed(key) /\ Subscribed(key, callback) THEN 1 ELSE 0
        /\ (\A key \in DOMAIN lastCall.before : ~Changed(key))
               => invoked = <<>>

(* one call wrote both keys: the array was new, the rarity filter was the
   one stored; the list was rendered, the filter buttons were left alone *)
C30_Witness ==
    /\ lastCall.made
    /\ DOMAIN lastCall.updates = {"rarityFilter", "filteredBirds"}
    /\ Changed("filteredBirds") /\ ~Changed("rarityFilter")
    /\ Subscribed("filteredBirds", "renderBirdList")
    /\ Subscribed("rarityFilter", "updateFilterUI")
    /\ TimesCalled("filteredBirds", "renderBirdList") = 1
    /\ TimesCalled("rarityFilter", "updateFilterUI") = 0

====
